---- MODULE Spec2Model ----
(***************************************************************************)
(* Zoom Meeting Tester (server.js): the Server-to-Server handler and the   *)
(* three OAuth handlers (login, callback, meeting creation) over the       *)
(* cookie-session session, as a state machine.                             *)
(*                                                                         *)
(* JavaScript strings are TLA+ strings; the value `undefined` of a string  *)
(* position is the string Undefined, the value `undefined` of an object    *)
(* position is the record NoObject.                                        *)
(*                                                                         *)
(* A session is one client's cookie jar.  cookie-session keeps the whole   *)
(* session in the cookie: each request deserialises req.session from the   *)
(* cookie the client sent, and a response carries Set-Cookie when the      *)
(* handler changed req.session.  The cookie is base64 of the session's    *)
(* JSON with a keyed signature beside it: tamper-evident, not encrypted.   *)
(* A client sends the requests of a session one after the other; a handler *)
(* is one action up to each await and one action from the awaited reply on.*)
(***************************************************************************)
EXTENDS Integers, Sequences, FiniteSets, TLC

\* ------------------------------------------------------------------ bounds
NumCreds == 2       \* distinct request-supplied values of each credential field
NumTokens == 2      \* distinct token payloads the provider issues

Sessions == {"s1"}
S2SReqs == {"r1"}

\* ------------------------------------------------------- JavaScript values
Undefined == "undefined"
NoObject == [undefined |-> TRUE]

Truthy(v) == v # Undefined /\ v # ""

\* a || b
Or_EnvFirst(a, b) == IF Truthy(b) THEN b ELSE a
Or(a, b) == IF Truthy(a) THEN a ELSE b

\* Buffer.from(s).toString('base64'): reversible by anyone, no key involved
Base64Encode(s) == [base64 |-> s]
Base64Decode(e) == e.base64

buildBasicAuthHeader(clientId, clientSecret) ==
    [scheme |-> "Basic", credentials |-> Base64Encode(clientId \o ":" \o clientSecret)]

Bearer(accessToken) == [scheme |-> "Bearer", credentials |-> accessToken]

\* encodeURIComponent: percent-encoding of a query value, decoded by the receiver
encodeURIComponent(s) == [percentEncoded |-> s]

\* --------------------------------------------------- request-supplied data
CredValues(prefix) == {prefix \o ToString(i) : i \in 1..NumCreds}
MaybeOf(S) == {Undefined, ""} \cup S

\* each field absent or supplied, at most one of them supplied empty
LoginQueries ==
    {q \in [client_id : MaybeOf(CredValues("cid")),
            client_secret : MaybeOf({"sec1"}),
            redirect_uri : MaybeOf({"uri1"}),
            scope : {Undefined, "meeting:read"}] :
        Cardinality({f \in {"client_id", "client_secret", "redirect_uri"} : q[f] = ""}) <= 1}

Codes == {"codeA", "codeB"}
CallbackQueries == [code : MaybeOf(Codes)]

MeetingBodies ==
    {[topic |-> Undefined, duration |-> Undefined, start_time |-> Undefined, timezone |-> Undefined],
     [topic |-> "Standup", duration |-> "45", start_time |-> "2026-01-01T10:00:00Z", timezone |-> "UTC"]}

\* ---------------------------------------------------- process environment
EnvKeysOAuth == {"ZOOM_OAUTH_CLIENT_ID", "ZOOM_OAUTH_CLIENT_SECRET",
                 "ZOOM_OAUTH_REDIRECT_URI", "ZOOM_OAUTH_SCOPE"}
EnvKeysS2S == {"ZOOM_S2S_CLIENT_ID", "ZOOM_S2S_CLIENT_SECRET", "ZOOM_S2S_ACCOUNT_ID"}
EnvKeys == EnvKeysOAuth \cup EnvKeysS2S

EnvValue(k) == "env:" \o k

\* ------------------------------------------------------ provider's replies
Tokens == {"tok" \o ToString(i) : i \in 1..NumTokens}
TokenPayload(i) ==
    [access_token |-> "tok" \o ToString(i), refresh_token |-> "ref" \o ToString(i),
     expires_in |-> "3600"]

\* An axios result: a 2xx response resolves; any other response rejects with
\* err.response set; a transport failure rejects with err.response undefined.
Resolved(data) == [ok |-> TRUE, response |-> [status |-> 200, data |-> data], message |-> Undefined]
Rejected(status, data) ==
    [ok |-> FALSE, response |-> [status |-> status, data |-> data],
     message |-> "Request failed with status code " \o ToString(status)]
TransportError(message) == [ok |-> FALSE, response |-> NoObject, message |-> message]

ErrorReplies ==
    {Rejected(401, "invalid_client"), Rejected(502, ""), TransportError("ECONNREFUSED")}

TokenReplies == {Resolved(TokenPayload(i)) : i \in 1..NumTokens} \cup ErrorReplies

MeetingPayload ==
    [id |-> "123456789", password |-> "pw", start_url |-> "https://zoom.us/s/123456789?zak=host",
     join_url |-> "https://zoom.us/j/123456789"]
MeetingReplies == {Resolved(MeetingPayload)} \cup ErrorReplies

\* ---------------------------------------------------------- cookie-session
SessionSecret == "dev_secret_change_me"
EmptySession == [oauthConfig |-> NoObject, oauthTokens |-> NoObject]
NoCookie == [none |-> TRUE]

\* keygrip signature: a keyed digest, not reversible
Sign(secret, payload) == [hmac |-> <<secret, payload>>]

\* Set-Cookie: session=base64(JSON(session)); session.sig=HMAC(secret, ...)
cookieSession(sess) ==
    [session |-> Base64Encode(sess), sig |-> Sign(SessionSecret, Base64Encode(sess))]

\* req.session as deserialised from the request's cookie
SessionOf(c) == IF c = NoCookie THEN EmptySession ELSE Base64Decode(c.session)

\* Set-Cookie is sent only when the handler changed the session
SetCookie(before, after) == IF after = before THEN NoCookie ELSE cookieSession(after)

\* the client's cookie jar after a response
Jar(held, setCookie) == IF setCookie = NoCookie THEN held ELSE setCookie

\* ------------------------------------------------------------------- state
VARIABLES
    env,                \* process.env, fixed when the process starts
    cookie,             \* cookie[s]: the session cookie client s holds
    req,                \* req[s]: the request of session s in flight, with the handler's locals
    pending,            \* pending[s]: the outbound call the request of s awaits
    resp,               \* resp[s]: the response to the latest request of s, once sent
    callbackSucceeded,  \* history: some callback of s stored a TokenSet
    overwrote,          \* history: some login of s replaced a different stored OAuthConfig
    s2s,                \* s2s[r]: the S2S request r in flight, with the handler's locals
    s2sPending,         \* s2sPending[r]: the outbound call r awaits
    s2sResp,            \* s2sResp[r]: the response sent for r
    trace               \* trace[i]: what the latest request of session or S2S request i has
                        \* logged, called and sent so far, in order

oauthVars == <<cookie, req, pending, resp, callbackSucceeded, overwrote>>
s2sVars == <<s2s, s2sPending, s2sResp>>
vars == <<env, cookie, req, pending, resp, callbackSucceeded, overwrote, s2s, s2sPending, s2sResp,
          trace>>

Idle == [pc |-> "idle"]
NoCall == [none |-> TRUE]
NoResponse == [route |-> "none"]

Response(route, status, body, location, setCookie) ==
    [route |-> route, status |-> status, body |-> body, location |-> location,
     setCookie |-> setCookie]

Json(fields) == [type |-> "json", value |-> fields]
Text(t) == [type |-> "text", value |-> t]
NoBody == [type |-> "none"]

\* JSON.stringify of a string, as the callback's error text embeds it
JSONstringify(s) == "\"" \o s \o "\""

\* catch (err): status = err.response?.status, data = err.response?.data
ErrStatus(err) == IF err.response = NoObject THEN 500 ELSE err.response.status
ErrDetails_MessageOnly(err) == err.message
ErrDetails(err) ==
    IF err.response # NoObject /\ Truthy(err.response.data) THEN err.response.data
    ELSE err.message

\* addLog (lines 36-48): the entry console[level](...args) appends to the log
\* buffer; of the arguments the leading strings are kept
LogEntry(level, message) == [level |-> level, message |-> message]
\* the request logger, lines 61-66
HttpLog(method, path) == LogEntry("info", "HTTP " \o method \o " " \o path)
\* res.json / res.send / res.redirect: the response leaves
Sent(status) == [sent |-> status]
\* axios.post: the outbound call leaves
Called(call) == [called |-> call.url.href]

\* no request served yet by clients `sessions` and S2S callers `reqs`
InitOver(sessions, reqs) ==
    /\ cookie = [s \in sessions |-> NoCookie]
    /\ req = [s \in sessions |-> Idle]
    /\ pending = [s \in sessions |-> NoCall]
    /\ resp = [s \in sessions |-> NoResponse]
    /\ callbackSucceeded = [s \in sessions |-> FALSE]
    /\ overwrote = [s \in sessions |-> FALSE]
    /\ s2s = [r \in reqs |-> Idle]
    /\ s2sPending = [r \in reqs |-> NoCall]
    /\ s2sResp = [r \in reqs |-> NoResponse]
    /\ trace = [i \in sessions \cup reqs |-> <<>>]

InitCommon == InitOver(Sessions, S2SReqs)

\* process.env after dotenv.config(): the keys of `set` are set, the others are not
EnvOf(set) == [k \in EnvKeys |-> IF k \in set THEN EnvValue(k) ELSE Undefined]

OAuthEnvs ==
    {EnvOf({}),
     EnvOf({"ZOOM_OAUTH_CLIENT_ID", "ZOOM_OAUTH_SCOPE"}),
     EnvOf({"ZOOM_OAUTH_CLIENT_SECRET", "ZOOM_OAUTH_REDIRECT_URI"})}

Init ==
    /\ env \in OAuthEnvs
    /\ InitCommon

\* ====================================================== GET /auth/login
MissingOAuthConfig_NoRedirectCheck(clientId, clientSecret, redirectUri) ==
    ~Truthy(clientId) \/ ~Truthy(clientSecret)
MissingOAuthConfig(clientId, clientSecret, redirectUri) ==
    ~Truthy(clientId) \/ ~Truthy(clientSecret) \/ ~Truthy(redirectUri)

\* lines 198-201: the query value, else the environment's, else the default
loginConfig(query) ==
    [clientId |-> Or(Or(query.client_id, env["ZOOM_OAUTH_CLIENT_ID"]), ""),
     clientSecret |-> Or(Or(query.client_secret, env["ZOOM_OAUTH_CLIENT_SECRET"]), ""),
     redirectUri |-> Or(Or(query.redirect_uri, env["ZOOM_OAUTH_REDIRECT_URI"]), ""),
     scope |-> Or(Or(query.scope, env["ZOOM_OAUTH_SCOPE"]), "meeting:write")]

\* line 207: req.session.oauthConfig = {...}
PutOAuthConfig_Reset(sess, config) == [oauthConfig |-> config, oauthTokens |-> NoObject]
PutOAuthConfig_KeepFirst(sess, config) ==
    IF sess.oauthConfig = NoObject THEN [sess EXCEPT !.oauthConfig = config] ELSE sess
PutOAuthConfig(sess, config) == [sess EXCEPT !.oauthConfig = config]

\* lines 209-213
authorizeUrl_NoScope(config) ==
    [href |-> "https://zoom.us/oauth/authorize",
     searchParams |-> [response_type |-> "code", client_id |-> config.clientId,
                       redirect_uri |-> config.redirectUri, scope |-> Undefined]]
authorizeUrl(config) ==
    [href |-> "https://zoom.us/oauth/authorize",
     searchParams |-> [response_type |-> "code", client_id |-> config.clientId,
                       redirect_uri |-> config.redirectUri, scope |-> config.scope]]

login(s, query) ==
    /\ req[s].pc = "idle"
    /\ LET session == SessionOf(cookie[s])
           config == loginConfig(query)
       IN  IF MissingOAuthConfig(config.clientId, config.clientSecret, config.redirectUri)
           THEN /\ resp' = [resp EXCEPT ![s] =
                        Response("login", 400,
                                 Json([error |-> "Missing OAuth config (client_id, client_secret, redirect_uri)."]),
                                 NoObject, NoCookie)]
                /\ trace' = [trace EXCEPT ![s] = <<HttpLog("GET", "/auth/login"), Sent(400)>>]
                /\ UNCHANGED <<cookie, overwrote>>
           ELSE LET after == PutOAuthConfig(session, config)
                IN  /\ resp' = [resp EXCEPT ![s] =
                            Response("login", 302, NoBody, authorizeUrl(config),
                                     SetCookie(session, after))]
                    /\ cookie' = [cookie EXCEPT ![s] = Jar(@, SetCookie(session, after))]
                    /\ overwrote' = [overwrote EXCEPT ![s] =
                            @ \/ (session.oauthConfig # NoObject /\ session.oauthConfig # config)]
                    /\ trace' = [trace EXCEPT ![s] =
                            <<HttpLog("GET", "/auth/login"),
                              LogEntry("info", "OAuth: redirecting to authorize"), Sent(302)>>]
    /\ UNCHANGED <<env, req, pending, callbackSucceeded, s2s, s2sPending, s2sResp>>

\* ==================================================== GET /auth/callback
\* line 223: !oauthConfig || !code
MissingSessionState_CodeOnly(oauthConfig, code) == ~Truthy(code)
MissingSessionState(oauthConfig, code) == oauthConfig = NoObject \/ ~Truthy(code)

\* lines 229-242: the authorization_code grant request
ExchangeAuthorizationCode(oauthConfig, code) ==
    [url |-> [href |-> "https://zoom.us/oauth/token", searchParams |-> NoObject],
     data |-> [grant_type |-> "authorization_code", code |-> code,
               redirect_uri |-> oauthConfig.redirectUri],
     headers |-> [Authorization |->
                      buildBasicAuthHeader(oauthConfig.clientId, oauthConfig.clientSecret),
                  ContentType |-> "application/x-www-form-urlencoded"]]

\* line 244: req.session.oauthTokens = tokenResp.data
PutTokenSet(sess, tokens) == [sess EXCEPT !.oauthTokens = tokens]

\* lines 249-254
callbackError(err) ==
    Response("callback", ErrStatus(err),
             Text("OAuth callback error: " \o JSONstringify(ErrDetails(err))), NoObject, NoCookie)

\* the handler up to its await (or its early return)
callback(s, query) ==
    /\ req[s].pc = "idle"
    /\ LET session == SessionOf(cookie[s])
           oauthConfig == session.oauthConfig
       IN  IF MissingSessionState(oauthConfig, query.code)
           THEN /\ resp' = [resp EXCEPT ![s] =
                        Response("callback", 400, Text("Missing session config or code"),
                                 NoObject, NoCookie)]
                /\ trace' = [trace EXCEPT ![s] = <<HttpLog("GET", "/auth/callback"), Sent(400)>>]
                /\ UNCHANGED <<req, pending>>
           ELSE IF oauthConfig = NoObject
           \* reading oauthConfig.redirectUri of undefined throws a TypeError inside the try
           THEN /\ resp' = [resp EXCEPT ![s] =
                        callbackError(TransportError("Cannot read properties of undefined"))]
                /\ trace' = [trace EXCEPT ![s] =
                        <<HttpLog("GET", "/auth/callback"),
                          LogEntry("info", "OAuth: exchanging code for token"),
                          LogEntry("error", "OAuth: callback error"), Sent(500)>>]
                /\ UNCHANGED <<req, pending>>
           ELSE /\ pending' = [pending EXCEPT ![s] =
                        ExchangeAuthorizationCode(oauthConfig, query.code)]
                /\ req' = [req EXCEPT ![s] = [pc |-> "callback", session |-> session]]
                /\ resp' = [resp EXCEPT ![s] = NoResponse]
                /\ trace' = [trace EXCEPT ![s] =
                        <<HttpLog("GET", "/auth/callback"),
                          LogEntry("info", "OAuth: exchanging code for token"),
                          Called(ExchangeAuthorizationCode(oauthConfig, query.code))>>]
    /\ UNCHANGED <<env, cookie, callbackSucceeded, overwrote, s2s, s2sPending, s2sResp>>

callbackReturn_IgnoreStatus(s, reply) ==
    /\ req[s].pc = "callback"
    /\ LET session == req[s].session
           data == IF reply.ok THEN reply.response.data
                   ELSE [access_token |-> Undefined, refresh_token |-> Undefined,
                         error |-> ErrDetails(reply)]
           after == PutTokenSet(session, data)
       IN  /\ resp' = [resp EXCEPT ![s] =
                   Response("callback", 302, NoBody,
                            [href |-> "/", searchParams |-> [oauth |-> "success"]],
                            SetCookie(session, after))]
           /\ cookie' = [cookie EXCEPT ![s] = Jar(@, SetCookie(session, after))]
           /\ callbackSucceeded' = [callbackSucceeded EXCEPT ![s] = TRUE]
           /\ trace' = [trace EXCEPT ![s] =
                   @ \o <<LogEntry("info", "OAuth: token acquired; redirecting back to app"),
                          Sent(302)>>]
    /\ req' = [req EXCEPT ![s] = Idle]
    /\ pending' = [pending EXCEPT ![s] = NoCall]
    /\ UNCHANGED <<env, overwrote, s2s, s2sPending, s2sResp>>
\* as if a failed exchange signed the client out
callbackReturn_ClearOnFailure(s, reply) ==
    /\ req[s].pc = "callback"
    /\ LET session == req[s].session
           after == IF reply.ok THEN PutTokenSet(session, reply.response.data)
                    ELSE PutTokenSet(session, NoObject)
       IN  /\ resp' = [resp EXCEPT ![s] =
                   IF reply.ok
                   THEN Response("callback", 302, NoBody,
                                 [href |-> "/", searchParams |-> [oauth |-> "success"]],
                                 SetCookie(session, after))
                   ELSE [callbackError(reply) EXCEPT !.setCookie = SetCookie(session, after)]]
           /\ cookie' = [cookie EXCEPT ![s] = Jar(@, SetCookie(session, after))]
           /\ callbackSucceeded' = [callbackSucceeded EXCEPT ![s] = @ \/ reply.ok]
           /\ trace' = [trace EXCEPT ![s] =
                   IF reply.ok
                   THEN @ \o <<LogEntry("info", "OAuth: token acquired; redirecting back to app"),
                               Sent(302)>>
                   ELSE @ \o <<LogEntry("error", "OAuth: callback error"),
                               Sent(ErrStatus(reply))>>]
    /\ req' = [req EXCEPT ![s] = Idle]
    /\ pending' = [pending EXCEPT ![s] = NoCall]
    /\ UNCHANGED <<env, overwrote, s2s, s2sPending, s2sResp>>
\* as if the session were one object of the process, shared by all clients
callbackReturn_SharedSession(s, reply) ==
    /\ req[s].pc = "callback"
    /\ IF reply.ok
       THEN LET session == req[s].session
                after == PutTokenSet(session, reply.response.data)
            IN  /\ resp' = [resp EXCEPT ![s] =
                        Response("callback", 302, NoBody,
                                 [href |-> "/", searchParams |-> [oauth |-> "success"]],
                                 SetCookie(session, after))]
                /\ cookie' = [c \in DOMAIN cookie |-> cookieSession(after)]
                /\ callbackSucceeded' = [callbackSucceeded EXCEPT ![s] = TRUE]
                /\ trace' = [trace EXCEPT ![s] =
                        @ \o <<LogEntry("info", "OAuth: token acquired; redirecting back to app"),
                               Sent(302)>>]
       ELSE /\ resp' = [resp EXCEPT ![s] = callbackError(reply)]
            /\ trace' = [trace EXCEPT ![s] =
                    @ \o <<LogEntry("error", "OAuth: callback error"), Sent(ErrStatus(reply))>>]
            /\ UNCHANGED <<cookie, callbackSucceeded>>
    /\ req' = [req EXCEPT ![s] = Idle]
    /\ pending' = [pending EXCEPT ![s] = NoCall]
    /\ UNCHANGED <<env, overwrote, s2s, s2sPending, s2sResp>>
\* the handler from the token endpoint's reply on
callbackReturn(s, reply) ==
    /\ req[s].pc = "callback"
    /\ IF reply.ok
       THEN LET session == req[s].session
                after == PutTokenSet(session, reply.response.data)
            IN  /\ resp' = [resp EXCEPT ![s] =
                        Response("callback", 302, NoBody,
                                 [href |-> "/", searchParams |-> [oauth |-> "success"]],
                                 SetCookie(session, after))]
                /\ cookie' = [cookie EXCEPT ![s] = Jar(@, SetCookie(session, after))]
                /\ callbackSucceeded' = [callbackSucceeded EXCEPT ![s] = TRUE]
                /\ trace' = [trace EXCEPT ![s] =
                        @ \o <<LogEntry("info", "OAuth: token acquired; redirecting back to app"),
                               Sent(302)>>]
       ELSE /\ resp' = [resp EXCEPT ![s] = callbackError(reply)]
            /\ trace' = [trace EXCEPT ![s] =
                    @ \o <<LogEntry("error", "OAuth: callback error"), Sent(ErrStatus(reply))>>]
            /\ UNCHANGED <<cookie, callbackSucceeded>>
    /\ req' = [req EXCEPT ![s] = Idle]
    /\ pending' = [pending EXCEPT ![s] = NoCall]
    /\ UNCHANGED <<env, overwrote, s2s, s2sPending, s2sResp>>

\* ================================ the create-meeting request (both flows)
\* destructuring default: applies to undefined only
Default(v, d) == IF v = Undefined THEN d ELSE v

CreateMeeting(body, authorization) ==
    [url |-> [href |-> "https://api.zoom.us/v2/users/me/meetings", searchParams |-> NoObject],
     data |-> [topic |-> Default(body.topic, "Test Meeting"), type |-> 2,
               duration |-> Default(body.duration, "30"),
               start_time |-> body.start_time, timezone |-> body.timezone,
               settings |-> [join_before_host |-> FALSE, waiting_room |-> TRUE]],
     headers |-> [Authorization |-> authorization]]

MeetingResult(method, data) ==
    Json([method |-> method, meeting_id |-> data.id, password |-> data.password,
          host_link |-> data.start_url, join_link |-> data.join_url])

\* ================================================ POST /api/oauth/meetings
\* line 261: !tokens?.access_token
Unauthenticated_Never(tokens) == FALSE
Unauthenticated_Always(tokens) == TRUE
Unauthenticated(tokens) == tokens = NoObject \/ ~Truthy(tokens.access_token)

\* lines 283-288
oauthMeetingsError_AsUnauthenticated(err) ==
    Response("oauth_meetings", ErrStatus(err),
             Json([error |-> "Not authenticated. Start with /auth/login"]), NoObject, NoCookie)
oauthMeetingsError(err) ==
    Response("oauth_meetings", ErrStatus(err),
             Json([error |-> "Failed to create meeting via OAuth", details |-> ErrDetails(err)]),
             NoObject, NoCookie)

\* the handler up to its await (or its early return)
oauthMeetings(s, body) ==
    /\ req[s].pc = "idle"
    /\ LET session == SessionOf(cookie[s])
           tokens == session.oauthTokens
       IN  IF Unauthenticated(tokens)
           THEN /\ resp' = [resp EXCEPT ![s] =
                        Response("oauth_meetings", 401,
                                 Json([error |-> "Not authenticated. Start with /auth/login"]),
                                 NoObject, NoCookie)]
                /\ trace' = [trace EXCEPT ![s] =
                        <<HttpLog("POST", "/api/oauth/meetings"), Sent(401)>>]
                /\ UNCHANGED <<req, pending>>
           ELSE IF tokens = NoObject
           \* reading tokens.access_token of undefined throws a TypeError inside the try
           THEN /\ resp' = [resp EXCEPT ![s] =
                        oauthMeetingsError(TransportError("Cannot read properties of undefined"))]
                /\ trace' = [trace EXCEPT ![s] =
                        <<HttpLog("POST", "/api/oauth/meetings"),
                          LogEntry("info", "OAuth: creating meeting"),
                          LogEntry("error", "OAuth: error creating meeting"), Sent(500)>>]
                /\ UNCHANGED <<req, pending>>
           ELSE /\ pending' = [pending EXCEPT ![s] =
                        CreateMeeting(body, Bearer(tokens.access_token))]
                /\ req' = [req EXCEPT ![s] = [pc |-> "oauth_meetings", session |-> session]]
                /\ resp' = [resp EXCEPT ![s] = NoResponse]
                /\ trace' = [trace EXCEPT ![s] =
                        <<HttpLog("POST", "/api/oauth/meetings"),
                          LogEntry("info", "OAuth: creating meeting"),
                          Called(CreateMeeting(body, Bearer(tokens.access_token)))>>]
    /\ UNCHANGED <<env, cookie, callbackSucceeded, overwrote, s2s, s2sPending, s2sResp>>

\* as if a token the provider rejected were dropped from the session
oauthMeetingsReturn_DropRejectedToken(s, reply) ==
    /\ req[s].pc = "oauth_meetings"
    /\ LET session == req[s].session
           after == IF ~reply.ok /\ ErrStatus(reply) = 401 THEN PutTokenSet(session, NoObject)
                    ELSE session
       IN  /\ resp' = [resp EXCEPT ![s] =
                   IF reply.ok
                   THEN Response("oauth_meetings", 200, MeetingResult("oauth", reply.response.data),
                                 NoObject, NoCookie)
                   ELSE [oauthMeetingsError(reply) EXCEPT !.setCookie = SetCookie(session, after)]]
           /\ cookie' = [cookie EXCEPT ![s] = Jar(@, SetCookie(session, after))]
    /\ trace' = [trace EXCEPT ![s] =
            IF reply.ok
            THEN @ \o <<LogEntry("info", "OAuth: meeting created"), Sent(200)>>
            ELSE @ \o <<LogEntry("error", "OAuth: error creating meeting"),
                        Sent(ErrStatus(reply))>>]
    /\ req' = [req EXCEPT ![s] = Idle]
    /\ pending' = [pending EXCEPT ![s] = NoCall]
    /\ UNCHANGED <<env, callbackSucceeded, overwrote, s2s, s2sPending, s2sResp>>
\* the handler from the create-meeting reply on
oauthMeetingsReturn(s, reply) ==
    /\ req[s].pc = "oauth_meetings"
    /\ resp' = [resp EXCEPT ![s] =
            IF reply.ok
            THEN Response("oauth_meetings", 200, MeetingResult("oauth", reply.response.data),
                          NoObject, NoCookie)
            ELSE oauthMeetingsError(reply)]
    /\ trace' = [trace EXCEPT ![s] =
            IF reply.ok
            THEN @ \o <<LogEntry("info", "OAuth: meeting created"), Sent(200)>>
            ELSE @ \o <<LogEntry("error", "OAuth: error creating meeting"),
                        Sent(ErrStatus(reply))>>]
    /\ req' = [req EXCEPT ![s] = Idle]
    /\ pending' = [pending EXCEPT ![s] = NoCall]
    /\ UNCHANGED <<env, cookie, callbackSucceeded, overwrote, s2s, s2sPending, s2sResp>>

\* ================================================== POST /api/s2s/meetings
S2SBodies ==
    [clientId : MaybeOf(CredValues("cid")),
     clientSecret : MaybeOf(CredValues("sec")),
     accountId : MaybeOf(CredValues("acct")),
     meeting : MeetingBodies]

\* line 125
MissingCredentials_NoAccountCheck(clientId, clientSecret, accountId) ==
    ~Truthy(clientId) \/ ~Truthy(clientSecret)
MissingCredentials(clientId, clientSecret, accountId) ==
    ~Truthy(clientId) \/ ~Truthy(clientSecret) \/ ~Truthy(accountId)

\* lines 134-146: the account_credentials grant request
ExchangeAccountCredentials(clientId, clientSecret, accountId) ==
    [url |-> [href |-> "https://zoom.us/oauth/token",
              searchParams |-> [grant_type |-> "account_credentials",
                                account_id |-> encodeURIComponent(accountId)]],
     data |-> NoObject,
     headers |-> [Authorization |-> buildBasicAuthHeader(clientId, clientSecret)]]

\* lines 183-188
s2sError(err) ==
    Response("s2s_meetings", ErrStatus(err),
             Json([error |-> "Failed to create meeting via S2S", details |-> ErrDetails(err)]),
             NoObject, NoCookie)

\* the handler up to its first await (or its early return)
s2sMeetings(r, body) ==
    /\ s2s[r].pc = "idle"
    /\ LET clientId == Or(body.clientId, env["ZOOM_S2S_CLIENT_ID"])
           clientSecret == Or(body.clientSecret, env["ZOOM_S2S_CLIENT_SECRET"])
           accountId == Or(body.accountId, env["ZOOM_S2S_ACCOUNT_ID"])
       IN  IF MissingCredentials(clientId, clientSecret, accountId)
           THEN /\ s2sResp' = [s2sResp EXCEPT ![r] =
                        Response("s2s_meetings", 400,
                                 Json([error |-> "Missing Zoom S2S credentials (clientId, clientSecret, accountId). Provide in body or environment."]),
                                 NoObject, NoCookie)]
                /\ trace' = [trace EXCEPT ![r] =
                        <<HttpLog("POST", "/api/s2s/meetings"),
                          LogEntry("info", "S2S: create meeting request received"), Sent(400)>>]
                /\ UNCHANGED <<s2s, s2sPending>>
           ELSE /\ s2sPending' = [s2sPending EXCEPT ![r] =
                        ExchangeAccountCredentials(clientId, clientSecret, accountId)]
                /\ s2s' = [s2s EXCEPT ![r] =
                        [pc |-> "token", clientId |-> clientId, clientSecret |-> clientSecret,
                         accountId |-> accountId, meeting |-> body.meeting,
                         accessToken |-> Undefined]]
                /\ s2sResp' = [s2sResp EXCEPT ![r] = NoResponse]
                /\ trace' = [trace EXCEPT ![r] =
                        <<HttpLog("POST", "/api/s2s/meetings"),
                          LogEntry("info", "S2S: create meeting request received"),
                          LogEntry("info", "S2S: requesting token for account"),
                          Called(ExchangeAccountCredentials(clientId, clientSecret, accountId))>>]
    /\ UNCHANGED <<env, cookie, req, pending, resp, callbackSucceeded, overwrote>>

\* as if a failed token exchange were tried once more
s2sTokenReturn_Retry(r, reply) ==
    /\ s2s[r].pc = "token"
    /\ IF reply.ok
       THEN LET accessToken == reply.response.data.access_token
            IN  /\ s2sPending' = [s2sPending EXCEPT ![r] =
                        CreateMeeting(s2s[r].meeting, Bearer(accessToken))]
                /\ s2s' = [s2s EXCEPT ![r].pc = "create", ![r].accessToken = accessToken]
                /\ trace' = [trace EXCEPT ![r] =
                        @ \o <<LogEntry("info", "S2S: token acquired"),
                               LogEntry("info", "S2S: creating meeting"),
                               Called(CreateMeeting(s2s[r].meeting, Bearer(accessToken)))>>]
                /\ UNCHANGED s2sResp
       ELSE IF Len(trace[r]) <= 4
       THEN /\ trace' = [trace EXCEPT ![r] = @ \o <<Called(s2sPending[r])>>]
            /\ UNCHANGED <<s2s, s2sPending, s2sResp>>
       ELSE /\ s2sResp' = [s2sResp EXCEPT ![r] = s2sError(reply)]
            /\ trace' = [trace EXCEPT ![r] =
                    @ \o <<LogEntry("error", "S2S: error creating meeting"),
                           Sent(ErrStatus(reply))>>]
            /\ s2sPending' = [s2sPending EXCEPT ![r] = NoCall]
            /\ s2s' = [s2s EXCEPT ![r] = Idle]
    /\ UNCHANGED <<env, cookie, req, pending, resp, callbackSucceeded, overwrote>>
\* as if the access token were kept in one place for all requests in flight
s2sTokenReturn_SharedToken(r, reply) ==
    /\ s2s[r].pc = "token"
    /\ IF reply.ok
       THEN LET others == {o \in DOMAIN s2s : o # r /\ s2s[o].pc = "create"}
                accessToken == IF others = {} THEN reply.response.data.access_token
                               ELSE s2s[CHOOSE o \in others : TRUE].accessToken
            IN  /\ s2sPending' = [s2sPending EXCEPT ![r] =
                        CreateMeeting(s2s[r].meeting, Bearer(accessToken))]
                /\ s2s' = [s2s EXCEPT ![r].pc = "create", ![r].accessToken = accessToken]
                /\ trace' = [trace EXCEPT ![r] =
                        @ \o <<LogEntry("info", "S2S: token acquired"),
                               LogEntry("info", "S2S: creating meeting"),
                               Called(CreateMeeting(s2s[r].meeting, Bearer(accessToken)))>>]
                /\ UNCHANGED s2sResp
       ELSE /\ s2sResp' = [s2sResp EXCEPT ![r] = s2sError(reply)]
            /\ trace' = [trace EXCEPT ![r] =
                    @ \o <<LogEntry("error", "S2S: error creating meeting"),
                           Sent(ErrStatus(reply))>>]
            /\ s2sPending' = [s2sPending EXCEPT ![r] = NoCall]
            /\ s2s' = [s2s EXCEPT ![r] = Idle]
    /\ UNCHANGED <<env, cookie, req, pending, resp, callbackSucceeded, overwrote>>
\* the handler from the token endpoint's reply to its second await
s2sTokenReturn(r, reply) ==
    /\ s2s[r].pc = "token"
    /\ IF reply.ok
       THEN LET accessToken == reply.response.data.access_token
            IN  /\ s2sPending' = [s2sPending EXCEPT ![r] =
                        CreateMeeting(s2s[r].meeting, Bearer(accessToken))]
                /\ s2s' = [s2s EXCEPT ![r].pc = "create", ![r].accessToken = accessToken]
                /\ trace' = [trace EXCEPT ![r] =
                        @ \o <<LogEntry("info", "S2S: token acquired"),
                               LogEntry("info", "S2S: creating meeting"),
                               Called(CreateMeeting(s2s[r].meeting, Bearer(accessToken)))>>]
                /\ UNCHANGED s2sResp
       ELSE /\ s2sResp' = [s2sResp EXCEPT ![r] = s2sError(reply)]
            /\ trace' = [trace EXCEPT ![r] =
                    @ \o <<LogEntry("error", "S2S: error creating meeting"),
                           Sent(ErrStatus(reply))>>]
            /\ s2sPending' = [s2sPending EXCEPT ![r] = NoCall]
            /\ s2s' = [s2s EXCEPT ![r] = Idle]
    /\ UNCHANGED <<env, cookie, req, pending, resp, callbackSucceeded, overwrote>>

\* as if the rejection of the create-meeting call were not caught
s2sCreateReturn_NoCatch(r, reply) ==
    /\ s2s[r].pc = "create"
    /\ IF reply.ok
       THEN /\ s2sResp' = [s2sResp EXCEPT ![r] =
                    Response("s2s_meetings", 200, MeetingResult("s2s", reply.response.data),
                             NoObject, NoCookie)]
            /\ trace' = [trace EXCEPT ![r] =
                    @ \o <<LogEntry("info", "S2S: meeting created"), Sent(200)>>]
       ELSE /\ trace' = [trace EXCEPT ![r] =
                    @ \o <<LogEntry("error", "S2S: error creating meeting")>>]
            /\ UNCHANGED s2sResp
    /\ s2sPending' = [s2sPending EXCEPT ![r] = NoCall]
    /\ s2s' = [s2s EXCEPT ![r] = Idle]
    /\ UNCHANGED <<env, cookie, req, pending, resp, callbackSucceeded, overwrote>>
\* the handler from the create-meeting reply on
s2sCreateReturn(r, reply) ==
    /\ s2s[r].pc = "create"
    /\ s2sResp' = [s2sResp EXCEPT ![r] =
            IF reply.ok
            THEN Response("s2s_meetings", 200, MeetingResult("s2s", reply.response.data),
                          NoObject, NoCookie)
            ELSE s2sError(reply)]
    /\ trace' = [trace EXCEPT ![r] =
            IF reply.ok
            THEN @ \o <<LogEntry("info", "S2S: meeting created"), Sent(200)>>
            ELSE @ \o <<LogEntry("error", "S2S: error creating meeting"),
                        Sent(ErrStatus(reply))>>]
    /\ s2sPending' = [s2sPending EXCEPT ![r] = NoCall]
    /\ s2s' = [s2s EXCEPT ![r] = Idle]
    /\ UNCHANGED <<env, cookie, req, pending, resp, callbackSucceeded, overwrote>>

\* ========================================================= specifications
Next ==
    \/ \E s \in Sessions, query \in LoginQueries : login(s, query)
    \/ \E s \in Sessions, query \in CallbackQueries : callback(s, query)
    \/ \E s \in Sessions, reply \in TokenReplies : callbackReturn(s, reply)
    \/ \E s \in Sessions, body \in MeetingBodies : oauthMeetings(s, body)
    \/ \E s \in Sessions, reply \in MeetingReplies : oauthMeetingsReturn(s, reply)

Spec == Init /\ [][Next]_vars

\* the Server-to-Server flow on its own
S2SEnvs ==
    {e \in [EnvKeys -> {Undefined, ""} \cup {EnvValue(k) : k \in EnvKeysS2S}] :
        \A k \in EnvKeys : IF k \in EnvKeysS2S THEN e[k] \in {Undefined, "", EnvValue(k)}
                           ELSE e[k] = Undefined}

InitS2S ==
    /\ env \in S2SEnvs
    /\ InitCommon

NextS2S ==
    \/ \E r \in S2SReqs, body \in S2SBodies : s2sMeetings(r, body)
    \/ \E r \in S2SReqs, reply \in TokenReplies : s2sTokenReturn(r, reply)
    \/ \E r \in S2SReqs, reply \in MeetingReplies : s2sCreateReturn(r, reply)

SpecS2S == InitS2S /\ [][NextS2S]_vars

\* two S2S requests served at the same time: the handler of one runs between
\* the awaits of the other; each caller sends its own credentials in the body
ConcurrentReqs == {"r1", "r2"}
OwnCredentials(i) ==
    [clientId |-> "cid" \o ToString(i), clientSecret |-> "sec" \o ToString(i),
     accountId |-> "acct" \o ToString(i),
     meeting |-> [topic |-> Undefined, duration |-> Undefined, start_time |-> Undefined,
                  timezone |-> Undefined]]
ConcurrentBodies ==
    {OwnCredentials(i) : i \in 1..NumCreds} \cup {[OwnCredentials(1) EXCEPT !.accountId = Undefined]}

InitS2SConcurrent ==
    /\ env = EnvOf({})
    /\ InitOver({}, ConcurrentReqs)

NextS2SConcurrent ==
    \/ \E r \in ConcurrentReqs, body \in ConcurrentBodies : s2sMeetings(r, body)
    \/ \E r \in ConcurrentReqs, reply \in TokenReplies : s2sTokenReturn(r, reply)
    \/ \E r \in ConcurrentReqs, reply \in MeetingReplies : s2sCreateReturn(r, reply)

SpecS2SConcurrent == InitS2SConcurrent /\ [][NextS2SConcurrent]_vars

\* two clients, each with its own cookie, whose requests interleave
TwoSessions == {"s1", "s2"}
OwnLoginQueries ==
    {[client_id |-> cid, client_secret |-> "sec1", redirect_uri |-> "uri1", scope |-> Undefined] :
        cid \in CredValues("cid") \cup {Undefined}}
OwnCallbackQueries == {[code |-> "codeA"], [code |-> Undefined]}
DefaultMeeting ==
    [topic |-> Undefined, duration |-> Undefined, start_time |-> Undefined, timezone |-> Undefined]

InitTwoSessions ==
    /\ env = EnvOf({})
    /\ InitOver(TwoSessions, {})

NextTwoSessions ==
    \/ \E s \in TwoSessions, query \in OwnLoginQueries : login(s, query)
    \/ \E s \in TwoSessions, query \in OwnCallbackQueries : callback(s, query)
    \/ \E s \in TwoSessions, reply \in TokenReplies : callbackReturn(s, reply)
    \/ \E s \in TwoSessions : oauthMeetings(s, DefaultMeeting)
    \/ \E s \in TwoSessions, reply \in MeetingReplies : oauthMeetingsReturn(s, reply)

SpecTwoSessions == InitTwoSessions /\ [][NextTwoSessions]_vars

\* all four handlers of one process: one client and one S2S caller
InitAll ==
    /\ env = EnvOf({})
    /\ InitCommon

NextAll ==
    \/ \E s \in Sessions, query \in OwnLoginQueries : login(s, query)
    \/ \E s \in Sessions, query \in OwnCallbackQueries : callback(s, query)
    \/ \E s \in Sessions, reply \in TokenReplies : callbackReturn(s, reply)
    \/ \E s \in Sessions : oauthMeetings(s, DefaultMeeting)
    \/ \E s \in Sessions, reply \in MeetingReplies : oauthMeetingsReturn(s, reply)
    \/ \E r \in S2SReqs, body \in ConcurrentBodies : s2sMeetings(r, body)
    \/ \E r \in S2SReqs, reply \in TokenReplies : s2sTokenReturn(r, reply)
    \/ \E r \in S2SReqs, reply \in MeetingReplies : s2sCreateReturn(r, reply)

SpecAll == InitAll /\ [][NextAll]_vars

\* every outbound call eventually returns or fails: the promise a handler
\* awaits is settled and the event loop then resumes the handler
OutboundCallsSettle ==
    /\ \A s \in Sessions :
           /\ WF_vars(\E reply \in TokenReplies : callbackReturn(s, reply))
           /\ WF_vars(\E reply \in MeetingReplies : oauthMeetingsReturn(s, reply))
    /\ \A r \in S2SReqs :
           /\ WF_vars(\E reply \in TokenReplies : s2sTokenReturn(r, reply))
           /\ WF_vars(\E reply \in MeetingReplies : s2sCreateReturn(r, reply))

SpecAllFair == SpecAll /\ OutboundCallsSettle

\* ============================================================ properties
oauthConfigOf(s) == SessionOf(cookie[s]).oauthConfig
oauthTokensOf(s) == SessionOf(cookie[s]).oauthTokens

Empty(v) == v \in {Undefined, ""}
\* the request-supplied value when present and non-empty, otherwise the fallback
Effective(supplied, fallback) == IF ~Empty(supplied) THEN supplied ELSE fallback

NotAuthenticatedBody == Json([error |-> "Not authenticated. Start with /auth/login"])
IsCreateMeeting(call) ==
    call # NoCall /\ call.url.href = "https://api.zoom.us/v2/users/me/meetings"
IsTokenExchange(call) == call # NoCall /\ call.url.href = "https://zoom.us/oauth/token"

\* C1: as long as no callback of a session has succeeded, every meeting-creation
\* request of the session is answered 401 Unauthenticated and no create-meeting
\* call is issued for it, however many logins or failed callbacks came before.
C1_UnauthenticatedBeforeCallback ==
    \A s \in Sessions : ~callbackSucceeded[s] =>
        /\ req[s].pc # "oauth_meetings"
        /\ ~IsCreateMeeting(pending[s])
        /\ resp[s].route = "oauth_meetings" =>
              resp[s].status = 401 /\ resp[s].body = NotAuthenticatedBody

C1_Witness ==
    \E s \in Sessions :
        /\ ~callbackSucceeded[s]
        /\ oauthConfigOf(s) # NoObject
        /\ resp[s].route = "oauth_meetings"
        /\ resp[s].status = 401

\* the provider-issued token values a response lets its receiver read: in the
\* body, in the redirect target, or in the session cookie (base64, no key needed)
SecretsOf(payload) == {payload.access_token, payload.refresh_token}
IssuedSecrets == UNION {SecretsOf(TokenPayload(i)) : i \in 1..NumTokens}
InBody(body) ==
    IF body.type = "json" THEN {body.value[f] : f \in DOMAIN body.value}
    ELSE IF body.type = "text"
    THEN {t \in IssuedSecrets :
            body.value \in {t, "OAuth callback error: " \o JSONstringify(t)}}
    ELSE {}
InLocation(location) ==
    IF location = NoObject THEN {}
    ELSE {location.searchParams[f] : f \in DOMAIN location.searchParams}
InCookie(c) ==
    IF c = NoCookie \/ Base64Decode(c.session).oauthTokens = NoObject THEN {}
    ELSE SecretsOf(Base64Decode(c.session).oauthTokens)
Exposed(r) ==
    IF r = NoResponse THEN {}
    ELSE (InBody(r.body) \cup InLocation(r.location) \cup InCookie(r.setCookie))
            \cap IssuedSecrets

\* C2: no response carries an access token or refresh token obtained from the
\* provider, neither in its body, nor in its redirect target, nor in the session
\* state returned with it.
C2_NoTokenInResponse == \A s \in Sessions : Exposed(resp[s]) = {}

\* C3: a callback arriving in a session without a stored OAuthConfig is answered
\* 400, issues no token exchange call and leaves the session as it was.
C3_CallbackWithoutConfigRejected ==
    [][\A s \in Sessions, query \in CallbackQueries :
          (callback(s, query) /\ oauthConfigOf(s) = NoObject) =>
              /\ resp'[s].route = "callback"
              /\ resp'[s].status = 400
              /\ resp'[s].body = Text("Missing session config or code")
              /\ resp'[s].setCookie = NoCookie
              /\ pending'[s] = NoCall
              /\ req'[s] = Idle
              /\ cookie'[s] = cookie[s]]_vars

C3_Witness ==
    \E s \in Sessions :
        /\ resp[s].route = "callback"
        /\ resp[s].status = 400
        /\ oauthConfigOf(s) = NoObject

LoginIncomplete(query) ==
    \/ Empty(Effective(query.client_id, env["ZOOM_OAUTH_CLIENT_ID"]))
    \/ Empty(Effective(query.client_secret, env["ZOOM_OAUTH_CLIENT_SECRET"]))
    \/ Empty(Effective(query.redirect_uri, env["ZOOM_OAUTH_REDIRECT_URI"]))

\* C4: a login whose clientId, clientSecret or redirectUri is empty after the
\* fallback to the process configuration is answered 400 without a redirect and
\* leaves the session unchanged; a session without an OAuthConfig gets one only
\* by a login with complete config.
C4_IncompleteLoginRejected ==
    [][\A s \in Sessions :
          /\ \A query \in LoginQueries :
                (login(s, query) /\ LoginIncomplete(query)) =>
                    /\ resp'[s].route = "login"
                    /\ resp'[s].status = 400
                    /\ resp'[s].location = NoObject
                    /\ resp'[s].setCookie = NoCookie
                    /\ cookie'[s] = cookie[s]
          /\ (oauthConfigOf(s) = NoObject /\ oauthConfigOf(s)' # NoObject) =>
                \E query \in LoginQueries : login(s, query) /\ ~LoginIncomplete(query)]_vars

C4_Witness ==
    \E s \in Sessions :
        /\ resp[s].route = "login"
        /\ resp[s].status = 400
        /\ oauthConfigOf(s) # NoObject

\* C5: a successful login leaves in the session exactly the OAuthConfig of that
\* login (each field the query's value or else the environment's, nothing of an
\* earlier login), and a callback exchanges its code with the clientId,
\* clientSecret and redirectUri the session holds at that time.
C5_LastLoginWins ==
    [][\A s \in Sessions :
          /\ \A query \in LoginQueries :
                (login(s, query) /\ resp'[s].status = 302) =>
                    oauthConfigOf(s)' =
                        [clientId |-> Effective(query.client_id, env["ZOOM_OAUTH_CLIENT_ID"]),
                         clientSecret |->
                             Effective(query.client_secret, env["ZOOM_OAUTH_CLIENT_SECRET"]),
                         redirectUri |->
                             Effective(query.redirect_uri, env["ZOOM_OAUTH_REDIRECT_URI"]),
                         scope |-> Effective(Effective(query.scope, env["ZOOM_OAUTH_SCOPE"]),
                                             "meeting:write")]
          /\ \A query \in CallbackQueries :
                (callback(s, query) /\ pending'[s] # NoCall) =>
                    /\ IsTokenExchange(pending'[s])
                    /\ pending'[s].headers.Authorization =
                          [scheme |-> "Basic",
                           credentials |-> Base64Encode(oauthConfigOf(s).clientId \o ":"
                                                          \o oauthConfigOf(s).clientSecret)]
                    /\ pending'[s].data.redirect_uri = oauthConfigOf(s).redirectUri
                    /\ pending'[s].data.code = query.code]_vars

C5_Witness ==
    \E s \in Sessions :
        /\ overwrote[s]
        /\ req[s].pc = "callback"
        /\ IsTokenExchange(pending[s])

\* C6: a login in a session that holds a TokenSet changes the OAuthConfig only:
\* the TokenSet is the same after the login, whatever the login's outcome.
C6_LoginKeepsTokenSet ==
    [][\A s \in Sessions, query \in LoginQueries :
          login(s, query) => oauthTokensOf(s)' = oauthTokensOf(s)]_vars

C6_Witness ==
    \E s \in Sessions :
        /\ resp[s].route = "login"
        /\ resp[s].status = 302
        /\ resp[s].setCookie # NoCookie
        /\ oauthTokensOf(s) # NoObject

\* C7: a session holds a TokenSet only if it holds an OAuthConfig, and the
\* TokenSet changes only when a callback that found a stored OAuthConfig gets a
\* 2xx reply from the token endpoint, whose payload becomes the TokenSet.
C7_TokenSetOnlyFromCallback ==
    /\ [](\A s \in Sessions : oauthTokensOf(s) # NoObject => oauthConfigOf(s) # NoObject)
    /\ [][\A s \in Sessions :
            oauthTokensOf(s)' # oauthTokensOf(s) =>
                /\ req[s].pc = "callback"
                /\ req[s].session.oauthConfig # NoObject
                /\ \E reply \in TokenReplies :
                      /\ reply.ok
                      /\ callbackReturn(s, reply)
                      /\ oauthTokensOf(s)' = reply.response.data]_vars

C7_Witness ==
    \E s \in Sessions :
        /\ resp[s].route = "callback"
        /\ resp[s].status = 302
        /\ oauthTokensOf(s) # NoObject
        /\ oauthConfigOf(s) # NoObject

\* C8: once a callback of a session has succeeded, every meeting-creation request
\* of the session is taken as authenticated: it issues the create-meeting call
\* with the access token the session holds and is not answered Unauthenticated.
C8_AuthenticatedAfterCallback ==
    [][\A s \in Sessions, body \in MeetingBodies :
          (oauthMeetings(s, body) /\ callbackSucceeded[s]) =>
              /\ req'[s].pc = "oauth_meetings"
              /\ IsCreateMeeting(pending'[s])
              /\ pending'[s].headers.Authorization =
                    [scheme |-> "Bearer", credentials |-> oauthTokensOf(s).access_token]
              /\ resp'[s] # Response("oauth_meetings", 401, NotAuthenticatedBody,
                                     NoObject, NoCookie)]_vars

C8_Witness ==
    \E s \in Sessions :
        /\ callbackSucceeded[s]
        /\ req[s].pc = "oauth_meetings"
        /\ IsCreateMeeting(pending[s])

S2SMissing(body) ==
    \/ Empty(body.clientId) /\ Empty(env["ZOOM_S2S_CLIENT_ID"])
    \/ Empty(body.clientSecret) /\ Empty(env["ZOOM_S2S_CLIENT_SECRET"])
    \/ Empty(body.accountId) /\ Empty(env["ZOOM_S2S_ACCOUNT_ID"])

MissingCredentialsResponse(r) ==
    /\ r # NoResponse
    /\ r.status = 400
    /\ r.body = Json([error |-> "Missing Zoom S2S credentials (clientId, clientSecret, accountId). Provide in body or environment."])

\* C9: in an S2S request each of clientId, clientSecret and accountId takes the
\* request's value when that is present and non-empty and the environment's
\* otherwise, and the request is answered MissingCredentials exactly when some
\* field is empty in both.
C9_CredentialMerge ==
    [][\A r \in S2SReqs, body \in S2SBodies :
          s2sMeetings(r, body) =>
              /\ MissingCredentialsResponse(s2sResp'[r]) <=> S2SMissing(body)
              /\ ~S2SMissing(body) =>
                    /\ s2s'[r].clientId = Effective(body.clientId, env["ZOOM_S2S_CLIENT_ID"])
                    /\ s2s'[r].clientSecret =
                          Effective(body.clientSecret, env["ZOOM_S2S_CLIENT_SECRET"])
                    /\ s2s'[r].accountId =
                          Effective(body.accountId, env["ZOOM_S2S_ACCOUNT_ID"])
                    /\ s2sPending'[r].url.searchParams.account_id =
                          encodeURIComponent(
                              Effective(body.accountId, env["ZOOM_S2S_ACCOUNT_ID"]))
                    /\ s2sPending'[r].headers.Authorization =
                          [scheme |-> "Basic",
                           credentials |-> Base64Encode(
                               Effective(body.clientId, env["ZOOM_S2S_CLIENT_ID"]) \o ":" \o
                               Effective(body.clientSecret, env["ZOOM_S2S_CLIENT_SECRET"]))]]_vars

C9_Witness ==
    \E r \in S2SReqs :
        /\ s2s[r].pc = "token"
        /\ s2s[r].clientId = EnvValue("ZOOM_S2S_CLIENT_ID")
        /\ s2s[r].accountId \in CredValues("acct")
        /\ env["ZOOM_S2S_ACCOUNT_ID"] = EnvValue("ZOOM_S2S_ACCOUNT_ID")

\* C10: an S2S request that lacks a credential after the merge is answered 400
\* with no outbound call issued for it: the handler is finished and neither a
\* token-endpoint call nor a create-meeting call is pending.
C10_NoCallWhenCredentialsMissing ==
    [][\A r \in S2SReqs, body \in S2SBodies :
          (s2sMeetings(r, body) /\ S2SMissing(body)) =>
              /\ MissingCredentialsResponse(s2sResp'[r])
              /\ s2sPending'[r] = NoCall
              /\ s2s'[r] = Idle]_vars

C10_Witness ==
    \E r \in S2SReqs :
        /\ MissingCredentialsResponse(s2sResp[r])
        /\ s2sPending[r] = NoCall
        /\ s2s[r] = Idle
        /\ env["ZOOM_S2S_CLIENT_ID"] = EnvValue("ZOOM_S2S_CLIENT_ID")

\* C11: whatever the interleaving of two concurrent S2S requests, the
\* create-meeting call of a request carries the access token that the token
\* endpoint returned to that same request, and a step of one request leaves the
\* call and the locals of the other as they were.
C11_OwnTokenInCreateCall ==
    /\ [](\A r \in ConcurrentReqs :
            s2s[r].pc = "create" =>
                s2sPending[r] = CreateMeeting(s2s[r].meeting, Bearer(s2s[r].accessToken)))
    /\ [][\A r \in ConcurrentReqs, reply \in TokenReplies :
            s2sTokenReturn(r, reply) /\ reply.ok =>
                /\ s2sPending'[r].headers.Authorization =
                       Bearer(reply.response.data.access_token)
                /\ \A o \in ConcurrentReqs \ {r} :
                       s2sPending'[o] = s2sPending[o] /\ s2s'[o] = s2s[o]]_vars

\* both requests await their create-meeting call, with different credentials
\* and different tokens
C11_Witness ==
    /\ s2s["r1"].pc = "create" /\ s2s["r2"].pc = "create"
    /\ s2s["r1"].clientId # s2s["r2"].clientId
    /\ s2s["r1"].accessToken # s2s["r2"].accessToken
    /\ s2sPending["r1"].headers.Authorization # s2sPending["r2"].headers.Authorization

\* what session s holds and what its latest request did
OfSession(s) == <<cookie[s], req[s], pending[s], resp[s], trace[s]>>

\* C12: whatever the interleaving of login, callback and meeting-creation
\* requests of two sessions, a request of one session works on that session's
\* own OAuthConfig and TokenSet (the token exchange is built from its own
\* config, the create-meeting call carries its own token, the tokens of a reply
\* go to the session that asked) and leaves the other session as it was.
C12_SessionsIsolated ==
    /\ [](\A s \in TwoSessions :
            /\ req[s].pc = "callback" =>
                   pending[s] = ExchangeAuthorizationCode(oauthConfigOf(s), pending[s].data.code)
            /\ req[s].pc = "oauth_meetings" =>
                   pending[s].headers.Authorization = Bearer(oauthTokensOf(s).access_token))
    /\ [][\A s \in TwoSessions : \A o \in TwoSessions \ {s} :
            /\ \A query \in OwnLoginQueries :
                   login(s, query) => OfSession(o)' = OfSession(o)
            /\ \A query \in OwnCallbackQueries :
                   callback(s, query) => OfSession(o)' = OfSession(o)
            /\ \A reply \in TokenReplies :
                   callbackReturn(s, reply) =>
                       /\ OfSession(o)' = OfSession(o)
                       /\ reply.ok => oauthTokensOf(s)' = reply.response.data
            /\ oauthMeetings(s, DefaultMeeting) => OfSession(o)' = OfSession(o)
            /\ \A reply \in MeetingReplies :
                   oauthMeetingsReturn(s, reply) => OfSession(o)' = OfSession(o)]_vars

\* the two sessions hold different configs and different tokens while a
\* callback of one and a meeting creation of the other are in flight
C12_Witness ==
    /\ req["s1"].pc = "oauth_meetings" /\ req["s2"].pc = "callback"
    /\ oauthConfigOf("s1") # NoObject /\ oauthConfigOf("s2") # NoObject
    /\ oauthConfigOf("s1") # oauthConfigOf("s2")
    /\ oauthTokensOf("s2") # NoObject /\ oauthTokensOf("s1") # oauthTokensOf("s2")

\* C13: when the provider rejects the stored token with 401, the response has
\* the provider's status and the MeetingCreationFailed body with the provider's
\* details, which differs from the body of the Unauthenticated outcome.
C13_ProviderRejectionDistinguishable ==
    [][\A s \in Sessions, reply \in MeetingReplies :
        (oauthMeetingsReturn(s, reply) /\ reply.response # NoObject /\ reply.response.status = 401)
        => /\ resp'[s].status = 401
           /\ resp'[s].body = Json([error |-> "Failed to create meeting via OAuth",
                                    details |-> reply.response.data])
           /\ resp'[s].body # NotAuthenticatedBody]_vars

\* a session that holds a token got the provider's 401
C13_Witness ==
    \E s \in Sessions :
        /\ resp[s].route = "oauth_meetings" /\ resp[s].status = 401
        /\ resp[s].body.value.error = "Failed to create meeting via OAuth"
        /\ ~Unauthenticated(oauthTokensOf(s))

\* the events of a request's trace
IsTokenCall(e) == "called" \in DOMAIN e /\ e.called = "https://zoom.us/oauth/token"
IsCreateCall(e) ==
    "called" \in DOMAIN e /\ e.called = "https://api.zoom.us/v2/users/me/meetings"
IsSent(e) == "sent" \in DOMAIN e
IsErrorLog(e) == "level" \in DOMAIN e /\ e.level \in {"warn", "error"}
TokenCalls(tr) == Cardinality({k \in DOMAIN tr : IsTokenCall(tr[k])})
CreateCalls(tr) == Cardinality({k \in DOMAIN tr : IsCreateCall(tr[k])})
Responses(tr) == Cardinality({k \in DOMAIN tr : IsSent(tr[k])})

\* C14: no request issues more than one token-exchange call or more than one
\* create-meeting call; an S2S request issues its create-meeting call only in
\* the step that handles a successful token reply, and a failed token reply
\* ends the request with the error response and no create-meeting call.
C14_NoRetries ==
    /\ [](\A i \in DOMAIN trace : TokenCalls(trace[i]) <= 1 /\ CreateCalls(trace[i]) <= 1)
    /\ [][\A r \in S2SReqs :
            /\ CreateCalls(trace'[r]) > CreateCalls(trace[r]) =>
                   \E reply \in TokenReplies : reply.ok /\ s2sTokenReturn(r, reply)
            /\ \A reply \in TokenReplies :
                   s2sTokenReturn(r, reply) /\ ~reply.ok =>
                       /\ s2sResp'[r] = s2sError(reply)
                       /\ s2s'[r] = Idle /\ s2sPending'[r] = NoCall
                       /\ CreateCalls(trace'[r]) = 0 /\ TokenCalls(trace'[r]) = 1]_vars

\* an S2S request was answered with the token endpoint's rejection after one
\* token-exchange call and no create-meeting call
C14_Witness ==
    \E r \in S2SReqs :
        /\ s2s[r] = Idle /\ s2sResp[r].route = "s2s_meetings" /\ s2sResp[r].status = 401
        /\ TokenCalls(trace[r]) = 1 /\ CreateCalls(trace[r]) = 0

\* the error response carries d: as the details of a JSON body, or JSON-encoded
\* in the callback's text body
Carries(response, d) ==
    IF response.body.type = "json" THEN response.body.value.details = d
    ELSE response.body = Text("OAuth callback error: " \o JSONstringify(d))

\* the response of request i to a failed outbound call is `response`
FailedCallAnswered(reply, response) ==
    \/ \E s \in Sessions : callbackReturn(s, reply) /\ response = resp'[s]
    \/ \E s \in Sessions : oauthMeetingsReturn(s, reply) /\ response = resp'[s]
    \/ \E r \in S2SReqs : s2sTokenReturn(r, reply) /\ response = s2sResp'[r]
    \/ \E r \in S2SReqs : s2sCreateReturn(r, reply) /\ response = s2sResp'[r]

AnswersTo(reply) ==
    {response \in {resp'[s] : s \in Sessions} \cup {s2sResp'[r] : r \in S2SReqs} :
        FailedCallAnswered(reply, response)}

\* C15 as stated: whenever the provider answered a failed call, the response
\* has the provider's status and carries the provider's body unchanged; with
\* no provider response it has status 500 and carries the transport error's
\* message.
C15_ProviderBodyUnchanged ==
    [][\A reply \in ErrorReplies : \A response \in AnswersTo(reply) :
        IF reply.response # NoObject
        THEN response.status = reply.response.status /\ Carries(response, reply.response.data)
        ELSE response.status = 500 /\ Carries(response, reply.message)]_vars

\* C15 amended: the response has the provider's status and carries the
\* provider's body when the provider answered with a non-empty body; when the
\* provider answered with an empty body it has the provider's status and
\* carries the error's message ("Request failed with status code N"); with no
\* provider response it has status 500 and carries the transport error's
\* message.
C15_ProviderErrorPropagated ==
    [][\A reply \in ErrorReplies : \A response \in AnswersTo(reply) :
        IF reply.response # NoObject /\ reply.response.data \notin {Undefined, ""}
        THEN response.status = reply.response.status /\ Carries(response, reply.response.data)
        ELSE IF reply.response # NoObject
        THEN response.status = reply.response.status /\ Carries(response, reply.message)
        ELSE response.status = 500 /\ Carries(response, reply.message)]_vars

\* the provider answered the token exchange with 502 and no body, and the
\* callback's response carries the error's message
C15_Witness ==
    \E s \in Sessions :
        /\ resp[s].route = "callback" /\ resp[s].status = 502
        /\ resp[s].body =
               Text("OAuth callback error: " \o JSONstringify("Request failed with status code 502"))

\* C16: in the trace of every request, an error response (status 400 or more)
\* comes after a log entry of level warn or error written for that request.
C16_FailureLoggedBeforeResponse ==
    \A i \in DOMAIN trace : \A k \in DOMAIN trace[i] :
        (IsSent(trace[i][k]) /\ trace[i][k].sent >= 400) =>
            \E j \in 1..(k - 1) : IsErrorLog(trace[i][j])

\* C17: a login with complete config is answered 302 with the provider's
\* authorize URL, whose query has response_type=code and the client_id,
\* redirect_uri and scope of the OAuthConfig now stored in the session; each is
\* the query's value or else the environment's, and the scope is
\* "meeting:write" when neither supplies one.
C17_LoginRedirect ==
    [][\A s \in Sessions, query \in LoginQueries :
        (login(s, query) /\ ~LoginIncomplete(query)) =>
            LET params == resp'[s].location.searchParams
                stored == oauthConfigOf(s)'
            IN  /\ resp'[s].status = 302
                /\ resp'[s].location.href = "https://zoom.us/oauth/authorize"
                /\ params.response_type = "code"
                /\ params.client_id = stored.clientId
                /\ params.redirect_uri = stored.redirectUri
                /\ params.scope = stored.scope
                /\ params.client_id = Effective(query.client_id, env["ZOOM_OAUTH_CLIENT_ID"])
                /\ params.redirect_uri =
                       Effective(query.redirect_uri, env["ZOOM_OAUTH_REDIRECT_URI"])
                /\ params.scope =
                       IF ~Empty(query.scope) THEN query.scope
                       ELSE IF ~Empty(env["ZOOM_OAUTH_SCOPE"]) THEN env["ZOOM_OAUTH_SCOPE"]
                       ELSE "meeting:write"]_vars

\* a login that named no scope, in a process without ZOOM_OAUTH_SCOPE, was
\* redirected with the default scope
C17_Witness ==
    \E s \in Sessions :
        /\ resp[s].route = "login" /\ resp[s].status = 302
        /\ env["ZOOM_OAUTH_SCOPE"] = Undefined
        /\ resp[s].location.searchParams.scope = "meeting:write"
        /\ resp[s].location.searchParams.client_id = oauthConfigOf(s).clientId

\* C18: a callback whose token exchange fails, by a non-2xx answer or by a
\* transport error, sends no Set-Cookie and leaves the client's session as it
\* was: the OAuthConfig stays, a TokenSet stored earlier stays and still
\* authenticates, and no TokenSet appears where there was none.
C18_FailedCallbackKeepsSession ==
    [][\A s \in Sessions, reply \in ErrorReplies :
        callbackReturn(s, reply) =>
            /\ resp'[s].setCookie = NoCookie
            /\ cookie'[s] = cookie[s]
            /\ oauthConfigOf(s)' = oauthConfigOf(s) /\ oauthConfigOf(s)' # NoObject
            /\ oauthTokensOf(s)' = oauthTokensOf(s)
            /\ Unauthenticated(oauthTokensOf(s)') = Unauthenticated(oauthTokensOf(s))]_vars

\* a callback failed in a session that holds the TokenSet of an earlier callback
C18_Witness ==
    \E s \in Sessions :
        /\ resp[s].route = "callback" /\ resp[s].status \in {401, 500, 502}
        /\ callbackSucceeded[s] /\ ~Unauthenticated(oauthTokensOf(s))

\* C19: a meeting-creation request leaves the session as it was, whether it is
\* answered 200, 401 Unauthenticated, or with the provider's rejection
\* (the provider's 401 included): no Set-Cookie, same cookie.
C19_MeetingCreationKeepsSession ==
    [][\A s \in Sessions :
        /\ \A body \in MeetingBodies :
               oauthMeetings(s, body) =>
                   /\ cookie'[s] = cookie[s]
                   /\ resp'[s] # NoResponse => resp'[s].setCookie = NoCookie
        /\ \A reply \in MeetingReplies :
               oauthMeetingsReturn(s, reply) =>
                   /\ cookie'[s] = cookie[s]
                   /\ resp'[s].setCookie = NoCookie
                   /\ SessionOf(cookie'[s]) = req[s].session]_vars

\* the provider rejected the stored token with 401 and the session still holds it
C19_Witness ==
    \E s \in Sessions :
        /\ resp[s].route = "oauth_meetings" /\ resp[s].status = 401
        /\ resp[s].body # NotAuthenticatedBody
        /\ oauthTokensOf(s) # NoObject /\ oauthConfigOf(s) # NoObject

\* C20: provided every outbound call settles, every request gets exactly one
\* response: a request in flight has sent none and eventually completes having
\* sent one, and every completed request (the early returns and the catch
\* paths included) has sent exactly one, as the last thing it did.
C20_ExactlyOneResponse ==
    /\ [](\A s \in Sessions :
            IF req[s].pc # "idle" THEN Responses(trace[s]) = 0
            ELSE trace[s] # <<>> =>
                    Responses(trace[s]) = 1 /\ IsSent(trace[s][Len(trace[s])])
                    /\ resp[s] # NoResponse)
    /\ [](\A r \in S2SReqs :
            IF s2s[r].pc # "idle" THEN Responses(trace[r]) = 0
            ELSE trace[r] # <<>> =>
                    Responses(trace[r]) = 1 /\ IsSent(trace[r][Len(trace[r])])
                    /\ s2sResp[r] # NoResponse)
    /\ \A s \in Sessions :
           (req[s].pc # "idle") ~> (req[s].pc = "idle" /\ Responses(trace[s]) = 1)
    /\ \A r \in S2SReqs :
           (s2s[r].pc # "idle") ~> (s2s[r].pc = "idle" /\ Responses(trace[r]) = 1)

\* an S2S request went through both awaits, its create-meeting call failed
\* without a provider response, and it was answered once
C20_Witness ==
    \E r \in S2SReqs :
        /\ s2s[r].pc = "idle" /\ TokenCalls(trace[r]) = 1 /\ CreateCalls(trace[r]) = 1
        /\ Responses(trace[r]) = 1 /\ s2sResp[r].route = "s2s_meetings"
        /\ s2sResp[r].status = 500

====
